---- MODULE Spec2Model ----
(***************************************************************************)
(* Model of treasure_hunt_bot.py: the TreasureHuntBot engine (riddle       *)
(* catalog, session store, progression, leaderboard) and the Telegram      *)
(* conversation handlers that drive it.                                    *)
(*                                                                         *)
(* Strings are sequences of one-character strings so that str.strip(),     *)
(* str.lower(), str.startswith() and == are computed, not assumed.         *)
(* A Python dict is a function whose DOMAIN is the set of keys present.    *)
(* Every chat is a private chat, so context.user_data (per user) is        *)
(* indexed by the chat id.                                                 *)
(***************************************************************************)
EXTENDS Integers, Sequences, FiniteSets, TLC

(***************************************************************************)
(* Bounds of the model.                                                    *)
(***************************************************************************)
MaxTime == 1        \* datetime.now() takes the values 0..MaxTime
MaxHints == 2       \* hint requests are explored while hints_used < MaxHints
MaxOverrun == 1     \* advance_riddle is explored while current_riddle < len(riddles) + MaxOverrun
MaxTasks == 2       \* updates whose handlers run concurrently

Chats == {1, 2}

(***************************************************************************)
(* Strings.                                                                *)
(***************************************************************************)
UpperChars == <<"A","B","C","D","E","F","G","H","I","J","K","L","M",
                "N","O","P","Q","R","S","T","U","V","W","X","Y","Z">>
LowerChars == <<"a","b","c","d","e","f","g","h","i","j","k","l","m",
                "n","o","p","q","r","s","t","u","v","w","x","y","z">>
Whitespace == {" ", "\t", "\n"}

OtherChars == {" ", "\t", "\n", "_", "/", "!", "0", "1", "2", "3", "4", "5", "6", "7", "8", "9"}
Range(s) == {s[i] : i \in 1..Len(s)}
Chars == Range(UpperChars) \cup Range(LowerChars) \cup OtherChars

\* str.lower() on one character: an upper-case letter becomes its lower-case
\* letter, every other character is kept
LowerChar ==
    [ch \in Chars |->
        IF \E i \in 1..Len(UpperChars) : UpperChars[i] = ch
        THEN LowerChars[CHOOSE i \in 1..Len(UpperChars) : UpperChars[i] = ch]
        ELSE ch]

\* str.lower()
Lower(s) == [i \in 1..Len(s) |-> LowerChar[s[i]]]

RECURSIVE LStrip(_)
LStrip(s) ==
    IF s = <<>> THEN <<>>
    ELSE IF Head(s) \in Whitespace THEN LStrip(Tail(s)) ELSE s

RECURSIVE RStrip(_)
RStrip(s) ==
    IF s = <<>> THEN <<>>
    ELSE IF s[Len(s)] \in Whitespace THEN RStrip(SubSeq(s, 1, Len(s) - 1)) ELSE s

\* str.strip()
Strip(s) == RStrip(LStrip(s))

\* str.startswith(prefix)
StartsWith(s, prefix) ==
    /\ Len(s) >= Len(prefix)
    /\ SubSeq(s, 1, Len(prefix)) = prefix

\* the literal "TREASURE_HUNT_" of handle_message and main --validate
QrPrefix == <<"T","R","E","A","S","U","R","E","_","H","U","N","T","_">>

(***************************************************************************)
(* Riddle catalog (load_riddles).  Only the fields the logic reads are     *)
(* kept: id, answer (absent for riddles 3 and 4) and qr_code.              *)
(***************************************************************************)
AnswerLibrary == <<"l","i","b","r","a","r","y">>
AnswerPark == <<"p","a","r","k">>
QrNA == <<"N","/","A">>
QrPark == QrPrefix \o <<"L","O","C","_","1","_","P","A","R","K">>
QrCafe == QrPrefix \o <<"L","O","C","_","3","_","C","A","F","E">>
QrStart == QrPrefix \o <<"L","O","C","_","4","_","S","T","A","R","T">>

load_riddles ==
    << [id |-> 0, answer |-> AnswerLibrary, qr_code |-> QrNA],
       [id |-> 1, answer |-> AnswerPark, qr_code |-> QrPark],
       [id |-> 3, qr_code |-> QrCafe],
       [id |-> 4, qr_code |-> QrStart] >>

\* "You can easily add or remove riddles here to change the number of
\* stops": the shipped catalog and the catalogs left by removing its last stops.
CatalogLengths == {1, Len(load_riddles)}
Catalogs == { SubSeq(load_riddles, 1, n) : n \in CatalogLengths }

\* "Customize this for your event": catalogs an edit of load_riddles can
\* leave, one with an id used twice and one with a qr_code used twice
DuplicateIdCatalog ==
    << load_riddles[1], [load_riddles[2] EXCEPT !.id = load_riddles[1].id] >>
DuplicateQrCatalog ==
    << load_riddles[1], load_riddles[2],
       [load_riddles[3] EXCEPT !.qr_code = load_riddles[2].qr_code] >>
StartupCatalogs == Catalogs \cup {DuplicateIdCatalog, DuplicateQrCatalog}

(***************************************************************************)
(* Inputs.                                                                 *)
(***************************************************************************)
TextPark == <<"P","a","r","k"," ">>
TextX == <<"x">>
\* a text of blanks only: filters.TEXT lets every non-empty text through
TextBlank == <<" ">>
\* a team name of exactly two characters once stripped
TextAb == <<" ","a","B">>

\* update.message.text of an inbound text message
Texts == {AnswerLibrary, TextPark, TextX, TextBlank, TextAb, QrNA, QrPark, QrCafe, QrStart}

\* the answers and codes typed while the engine is also called directly
EngineTexts == {AnswerLibrary, TextPark, TextBlank, QrPark}

\* what a user who was asked for the team name types
NameTexts == {TextAb, TextX, TextBlank}

\* qr_data of a direct validate_qr_code call
QrInputs == {QrNA, QrPark, Lower(QrPark)}

\* team_name of a direct create_game_session call
TeamNames == {AnswerLibrary}

\* query.data of the inline buttons
Buttons == {"new_game", "leaderboard", "help", "hint"}

\* Chat 1 is the team that plays: every command, button and text is explored
\* for it.  Chat 2 is a second team that registers only (and that the engine,
\* called directly, creates and advances), so that the store holds another
\* session next to the one that is operated on.
Players == {1}
TextsOf(c) == IF c \in Players THEN Texts ELSE NameTexts
ButtonsOf(c) == IF c \in Players THEN Buttons ELSE {"new_game"}

VARIABLES
    riddles,      \* bot_instance.riddles
    game_data,    \* bot_instance.game_data: chat_id -> session dict
    key_order,    \* insertion order of the keys of game_data (dict order)
    waiting,      \* context.user_data['waiting_for_team_name'] per chat
    now,          \* the clock read by datetime.now()
    last,         \* the last operation: its input, the store before it, its
                  \* return value and its reply
    played,       \* per chat, how many steps of the walkthrough the
                  \* inbound events of the chat have followed so far
    pc,           \* where main is: "main" after parse_args, "polling" in
                  \* run_polling, "exit" once it has returned
    tasks         \* the handler coroutines of the updates that are processed
                  \* concurrently, in the order of their delivery

vars == <<riddles, game_data, key_order, waiting, now, last, played, pc, tasks>>

\* Python's None
None == [none |-> TRUE]

(***************************************************************************)
(* TreasureHuntBot                                                         *)
(***************************************************************************)
\* the dict literal of create_game_session
NewSession(team_name, t) ==
    [team_name |-> team_name,
     current_riddle |-> 0,
     start_time |-> t,
     completed_riddles |-> <<>>,
     hints_used |-> 0,
     status |-> "active"]

\* create_game_session as it would be if it updated the session in place:
\* the hints of a prior session are kept
create_game_session_merge(gd, chat_id, team_name, t) ==
    (chat_id :> [NewSession(team_name, t) EXCEPT
                    !.hints_used = IF chat_id \in DOMAIN gd THEN gd[chat_id].hints_used ELSE 0])
    @@ gd

\* self.game_data[chat_id] = session
create_game_session(gd, chat_id, team_name, t) ==
    (chat_id :> NewSession(team_name, t)) @@ gd

\* a dict keeps the position of a key that is assigned again
InsertKey(ko, chat_id) ==
    IF \E i \in 1..Len(ko) : ko[i] = chat_id THEN ko ELSE Append(ko, chat_id)

\* get_current_riddle as it would be if it looked the riddle up by its id:
\* the riddle whose id is the session's position, if there is one
get_current_riddle_by_id(gd, chat_id) ==
    IF chat_id \notin DOMAIN gd THEN None
    ELSE IF gd[chat_id].current_riddle >= Len(riddles) THEN None
    ELSE IF \E i \in 1..Len(riddles) : riddles[i].id = gd[chat_id].current_riddle
    THEN riddles[CHOOSE i \in 1..Len(riddles) : riddles[i].id = gd[chat_id].current_riddle]
    ELSE None

get_current_riddle(gd, chat_id) ==
    IF chat_id \notin DOMAIN gd THEN None
    ELSE IF gd[chat_id].current_riddle >= Len(riddles) THEN None
    ELSE riddles[gd[chat_id].current_riddle + 1]

\* validate_qr_code as it would be if it compared case-insensitively
validate_qr_code_nocase(gd, chat_id, qr_data) ==
    LET current_riddle == get_current_riddle(gd, chat_id) IN
    IF current_riddle = None THEN FALSE
    ELSE Lower(qr_data) = Lower(current_riddle.qr_code)

validate_qr_code(gd, chat_id, qr_data) ==
    LET current_riddle == get_current_riddle(gd, chat_id) IN
    IF current_riddle = None THEN FALSE
    ELSE qr_data = current_riddle.qr_code

\* lines 173-178 as they would be with > for >= at line 176
AdvanceSessionLate(session, t) ==
    LET s1 == [session EXCEPT !.completed_riddles = Append(@, session.current_riddle),
                              !.current_riddle = @ + 1] IN
    IF s1.current_riddle > Len(riddles)
    THEN ("end_time" :> t) @@ [s1 EXCEPT !.status = "completed"]
    ELSE s1

\* lines 173-178 as they would be if the status were recomputed on every
\* call from current_riddle == len(riddles)
AdvanceSessionExact(session, t) ==
    LET s1 == [session EXCEPT !.completed_riddles = Append(@, session.current_riddle),
                              !.current_riddle = @ + 1] IN
    IF s1.current_riddle = Len(riddles)
    THEN ("end_time" :> t) @@ [s1 EXCEPT !.status = "completed"]
    ELSE [s1 EXCEPT !.status = "active"]

\* lines 173-178 as they would be if the id of the riddle solved were
\* appended to completed_riddles
AdvanceSessionById(session, t) ==
    LET p == session.current_riddle
        s1 == [session EXCEPT !.completed_riddles =
                                  Append(@, IF p < Len(riddles) THEN riddles[p + 1].id ELSE p),
                              !.current_riddle = @ + 1] IN
    IF s1.current_riddle >= Len(riddles)
    THEN ("end_time" :> t) @@ [s1 EXCEPT !.status = "completed"]
    ELSE s1

\* the session after lines 173-178
AdvanceSession(session, t) ==
    LET s1 == [session EXCEPT !.completed_riddles = Append(@, session.current_riddle),
                              !.current_riddle = @ + 1] IN
    IF s1.current_riddle >= Len(riddles)
    THEN ("end_time" :> t) @@ [s1 EXCEPT !.status = "completed"]
    ELSE s1

\* advance_riddle as it would be if the sessions shared one
\* completed_riddles list: the position appended shows in every session
advance_riddle_shared(gd, chat_id, t) ==
    IF chat_id \notin DOMAIN gd THEN gd
    ELSE [d \in DOMAIN gd |->
            IF d = chat_id THEN AdvanceSession(gd[d], t)
            ELSE [gd[d] EXCEPT !.completed_riddles = Append(@, gd[chat_id].current_riddle)]]

\* game_data after advance_riddle(chat_id)
advance_riddle(gd, chat_id, t) ==
    IF chat_id \notin DOMAIN gd THEN gd
    ELSE [gd EXCEPT ![chat_id] = AdvanceSession(@, t)]

\* the return value of advance_riddle(chat_id)
advance_riddle_result(gd, chat_id) == chat_id \in DOMAIN gd


\* one row of get_leaderboard for the session of chat_id
LeaderboardEntry(gd, chat_id) ==
    [team_name |-> gd[chat_id].team_name,
     duration |-> gd[chat_id].end_time - gd[chat_id].start_time,
     hints_used |-> gd[chat_id].hints_used,
     chat_id |-> chat_id]

\* the sort key as it would be with the hints first: (hints_used, duration)
KeyLessHintsFirst(a, b) ==
    \/ a.hints_used < b.hints_used
    \/ a.hints_used = b.hints_used /\ a.duration < b.duration

\* the tuple comparison of the sort key (x["duration"], x["hints_used"])
KeyLess(a, b) ==
    \/ a.duration < b.duration
    \/ a.duration = b.duration /\ a.hints_used < b.hints_used

\* the sort as it would be if it were not stable: an entry goes before the
\* first entry whose key is greater or equal, so equal keys come out reversed
RECURSIVE InsertSortedUnstable(_, _)
InsertSortedUnstable(e, s) ==
    IF s = <<>> THEN <<e>>
    ELSE IF ~KeyLess(Head(s), e) THEN <<e>> \o s
    ELSE <<Head(s)>> \o InsertSortedUnstable(e, Tail(s))

\* list.sort is stable: an entry goes before the first entry with a greater key
RECURSIVE InsertSorted(_, _)
InsertSorted(e, s) ==
    IF s = <<>> THEN <<e>>
    ELSE IF KeyLess(e, Head(s)) THEN <<e>> \o s
    ELSE <<Head(s)>> \o InsertSorted(e, Tail(s))

RECURSIVE SortEntries(_)
SortEntries(s) ==
    IF s = <<>> THEN <<>>
    ELSE InsertSorted(s[Len(s)], SortEntries(SubSeq(s, 1, Len(s) - 1)))

\* the loop of get_leaderboard over game_data.items(), in dict order
RECURSIVE CompletedGames(_, _)
CompletedGames(gd, ko) ==
    IF ko = <<>> THEN <<>>
    ELSE (IF gd[Head(ko)].status = "completed"
          THEN <<LeaderboardEntry(gd, Head(ko))>> ELSE <<>>)
         \o CompletedGames(gd, Tail(ko))

get_leaderboard(gd, ko) == SortEntries(CompletedGames(gd, ko))

(***************************************************************************)
(* Conversation handlers.  Each returns the new game_data and the kind of  *)
(* reply it sends.                                                         *)
(***************************************************************************)
\* send_riddle: the message it sends
send_riddle(gd, chat_id) ==
    IF get_current_riddle(gd, chat_id) = None THEN "no_active_riddle" ELSE "riddle"

\* text = update.message.text.strip().lower()
MessageText(raw) == Lower(Strip(raw))

\* A local variable that is read before any assignment to it
Unbound == [unbound |-> TRUE]

\* handle_message assigns its local current_riddle at line 380 only, after the
\* location-code branch has returned: at line 351 the local is unbound.
QrBranchCurrentRiddle(gd, chat_id) == Unbound

\* handle_message, lines 349-372: the location-code branch
HandleQrCode(gd, chat_id, text, t) ==
    LET current_riddle == QrBranchCurrentRiddle(gd, chat_id) IN
    IF current_riddle = Unbound
    THEN [gd |-> gd, reply |-> "UnboundLocalError"]
    ELSE IF current_riddle.id = 0
    THEN [gd |-> gd, reply |-> "answer_first"]
    ELSE IF validate_qr_code(gd, chat_id, text)
    THEN LET gd1 == advance_riddle(gd, chat_id, t) IN
         IF gd1[chat_id].status = "completed"
         THEN [gd |-> gd1, reply |-> "completed"]
         ELSE [gd |-> gd1, reply |-> send_riddle(gd1, chat_id)]
    ELSE [gd |-> gd, reply |-> "qr_invalid"]

\* the answer branch as it would be if a correct answer advanced the session
HandleAnswerAdvancing(gd, chat_id, text) ==
    IF chat_id \notin DOMAIN gd \/ gd[chat_id].status # "active"
    THEN [gd |-> gd, reply |-> "no_active_game"]
    ELSE LET current_riddle == get_current_riddle(gd, chat_id) IN
         IF current_riddle = None
         THEN [gd |-> gd, reply |-> "all_solved"]
         ELSE LET correct_answer ==
                      Lower(Strip(IF "answer" \in DOMAIN current_riddle
                                  THEN current_riddle.answer ELSE <<>>)) IN
              IF text = correct_answer
              THEN [gd |-> advance_riddle(gd, chat_id, 0), reply |-> "answer_correct"]
              ELSE [gd |-> gd, reply |-> "answer_wrong"]

\* the answer branch as it would be if a wrong answer cost a hint
HandleAnswerPenalty(gd, chat_id, text) ==
    IF chat_id \notin DOMAIN gd \/ gd[chat_id].status # "active"
    THEN [gd |-> gd, reply |-> "no_active_game"]
    ELSE LET current_riddle == get_current_riddle(gd, chat_id) IN
         IF current_riddle = None
         THEN [gd |-> gd, reply |-> "all_solved"]
         ELSE LET correct_answer ==
                      Lower(Strip(IF "answer" \in DOMAIN current_riddle
                                  THEN current_riddle.answer ELSE <<>>)) IN
              IF text = correct_answer
              THEN [gd |-> gd, reply |-> "answer_correct"]
              ELSE [gd |-> [gd EXCEPT ![chat_id].hints_used = @ + 1],
                    reply |-> "answer_wrong"]

\* handle_message, lines 375-399: the free-text answer branch
HandleAnswer(gd, chat_id, text) ==
    IF chat_id \notin DOMAIN gd \/ gd[chat_id].status # "active"
    THEN [gd |-> gd, reply |-> "no_active_game"]
    ELSE LET current_riddle == get_current_riddle(gd, chat_id) IN
         IF current_riddle = None
         THEN [gd |-> gd, reply |-> "all_solved"]
         ELSE LET correct_answer ==
                      Lower(Strip(IF "answer" \in DOMAIN current_riddle
                                  THEN current_riddle.answer ELSE <<>>)) IN
              IF text = correct_answer
              THEN [gd |-> gd, reply |-> "answer_correct"]
              ELSE [gd |-> gd, reply |-> "answer_wrong"]

\* handle_message, line 349: is the text a location code?
IsQrCode(text) == StartsWith(text, QrPrefix)

\* handle_message as it would be if only an empty team name were refused
handle_message_nonempty(gd, ko, w, chat_id, raw, t) ==
    LET text == MessageText(raw) IN
    IF w
    THEN LET team_name == Strip(text) IN
         IF Len(team_name) < 1
         THEN [gd |-> gd, ko |-> ko, waiting |-> w,
               branch |-> "team_name", reply |-> "name_too_short"]
         ELSE LET gd1 == create_game_session(gd, chat_id, team_name, t) IN
              [gd |-> gd1, ko |-> InsertKey(ko, chat_id), waiting |-> FALSE,
               branch |-> "team_name", reply |-> send_riddle(gd1, chat_id)]
    ELSE IF IsQrCode(text)
    THEN LET r == HandleQrCode(gd, chat_id, text, t) IN
         [gd |-> r.gd, ko |-> ko, waiting |-> w, branch |-> "qr_code", reply |-> r.reply]
    ELSE LET r == HandleAnswer(gd, chat_id, text) IN
         [gd |-> r.gd, ko |-> ko, waiting |-> w, branch |-> "answer", reply |-> r.reply]

\* handle_message: the game_data, key order and waiting flag it leaves, the
\* branch it took and the reply it sent
handle_message(gd, ko, w, chat_id, raw, t) ==
    LET text == MessageText(raw) IN
    IF w
    THEN LET team_name == Strip(text) IN
         IF Len(team_name) < 2
         THEN [gd |-> gd, ko |-> ko, waiting |-> w,
               branch |-> "team_name", reply |-> "name_too_short"]
         ELSE LET gd1 == create_game_session(gd, chat_id, team_name, t) IN
              [gd |-> gd1, ko |-> InsertKey(ko, chat_id), waiting |-> FALSE,
               branch |-> "team_name", reply |-> send_riddle(gd1, chat_id)]
    ELSE IF IsQrCode(text)
    THEN LET r == HandleQrCode(gd, chat_id, text, t) IN
         [gd |-> r.gd, ko |-> ko, waiting |-> w, branch |-> "qr_code", reply |-> r.reply]
    ELSE LET r == HandleAnswer(gd, chat_id, text) IN
         [gd |-> r.gd, ko |-> ko, waiting |-> w, branch |-> "answer", reply |-> r.reply]

\* hint_command as it would be if a hint were counted once only
hint_command_dedup(gd, chat_id) ==
    IF get_current_riddle(gd, chat_id) = None
    THEN [gd |-> gd, reply |-> "no_active_riddle"]
    ELSE [gd |-> [gd EXCEPT ![chat_id].hints_used = IF @ = 0 THEN 1 ELSE @],
          reply |-> "hint"]

\* hint_command, lines 409-417
hint_command(gd, chat_id) ==
    IF get_current_riddle(gd, chat_id) = None
    THEN [gd |-> gd, reply |-> "no_active_riddle"]
    ELSE [gd |-> [gd EXCEPT ![chat_id].hints_used = @ + 1], reply |-> "hint"]

\* button_callback, query.data == "hint", lines 315-321
button_hint(gd, chat_id) ==
    IF get_current_riddle(gd, chat_id) # None
    THEN [gd |-> [gd EXCEPT ![chat_id].hints_used = @ + 1], reply |-> "hint"]
    ELSE [gd |-> gd, reply |-> "no_active_riddle"]

\* status_command: the reply it sends
status_command(gd, chat_id) ==
    IF chat_id \notin DOMAIN gd THEN "no_active_game"
    ELSE IF get_current_riddle(gd, chat_id) = None THEN "game_completed"
    ELSE "status"

(***************************************************************************)
(* The walkthrough of the game: the "Start New Game" button, a team name   *)
(* of two or more characters, then for each riddle of the catalog its      *)
(* answer (when it has one) followed by its location code.                 *)
(***************************************************************************)
RECURSIVE WalkthroughTexts(_)
WalkthroughTexts(rs) ==
    IF rs = <<>> THEN <<>>
    ELSE (IF "answer" \in DOMAIN Head(rs)
          THEN <<[kind |-> "answer", text |-> Head(rs).answer]>> ELSE <<>>)
         \o <<[kind |-> "code", text |-> Head(rs).qr_code]>>
         \o WalkthroughTexts(Tail(rs))

Walkthrough == [rs \in Catalogs |-> WalkthroughTexts(rs)]

WalkthroughLength == 2 + Len(Walkthrough[riddles])

\* the text typed is the answer up to case and surrounding blanks, or exactly the code
TypedAs(raw, step) ==
    IF step.kind = "answer"
    THEN Lower(Strip(raw)) = Lower(Strip(step.text))
    ELSE raw = step.text

\* does the inbound event ev follow the first k steps of the walkthrough?
FollowsAt(k, ev) ==
    IF k = 0 THEN ev.kind = "button" /\ ev.data = "new_game"
    ELSE IF k = 1 THEN ev.kind = "text" /\ Len(Strip(ev.data)) >= 2
    ELSE /\ k < WalkthroughLength
         /\ ev.kind = "text"
         /\ TypedAs(ev.data, Walkthrough[riddles][k - 1])

NextPlayed(k, ev) ==
    IF FollowsAt(k, ev) THEN k + 1
    ELSE IF FollowsAt(0, ev) THEN 1
    ELSE 0

Event(kind, data) == [kind |-> kind, data |-> data]

\* the walkthrough is followed by the conversation alone: it is tracked
\* (track = TRUE) where inbound events are the only operations
Played(track, c, ev) ==
    played' = IF track THEN [played EXCEPT ![c] = NextPlayed(@, ev)] ELSE played

(***************************************************************************)
(* State machine.                                                          *)
(***************************************************************************)
\* the record of one operation: what was called for which chat with which
\* argument, game_data and the waiting flags before the call, the branch
\* taken, the value returned and the reply sent
Op(op, chat, arg, branch, ret, reply) ==
    [op |-> op, chat |-> chat, arg |-> arg, pre |-> game_data, pre_waiting |-> waiting,
     branch |-> branch, ret |-> ret, reply |-> reply]

NoArg == <<>>

\* main: TreasureHuntBot(args.token) with an empty game_data, then run_polling
Init ==
    /\ riddles \in Catalogs
    /\ game_data = <<>>
    /\ key_order = <<>>
    /\ waiting = [c \in Chats |-> FALSE]
    /\ now = 0
    /\ last = Op("init", 0, NoArg, "", None, "")
    /\ played = [c \in Chats |-> 0]
    /\ pc = "polling"
    /\ tasks = <<>>

\* time passes between two reads of datetime.now()
Tick ==
    /\ now < MaxTime
    /\ now' = now + 1
    /\ last' = Op("tick", 0, NoArg, "", None, "")
    /\ UNCHANGED <<riddles, pc, tasks, game_data, key_order, waiting, played>>

\* the handlers are called by run_polling
Polling == pc = "polling"

\* /start
Start(track, c) ==
    /\ Polling
    /\ last' = Op("start", c, NoArg, "", None, "welcome")
    /\ Played(track, c, Event("command", "start"))
    /\ UNCHANGED <<riddles, pc, tasks, game_data, key_order, waiting, now>>

\* button_callback (context.bot_data['bot_instance'] is set by main before polling)
ButtonCallback(track, c, data) ==
    /\ Polling
    /\ data \in Buttons
    /\ data = "hint" /\ c \in DOMAIN game_data => game_data[c].hints_used < MaxHints
    /\ Played(track, c, Event("button", data))
    /\ IF data = "new_game"
       THEN /\ waiting' = [waiting EXCEPT ![c] = TRUE]
            /\ last' = Op("button", c, data, "", None, "ask_team_name")
            /\ UNCHANGED game_data
       ELSE IF data = "leaderboard"
       THEN LET leaderboard == get_leaderboard(game_data, key_order) IN
            /\ last' = Op("button", c, data, "", leaderboard,
                          IF leaderboard = <<>> THEN "no_completed_games" ELSE "leaderboard")
            /\ UNCHANGED <<game_data, waiting>>
       ELSE IF data = "help"
       THEN /\ last' = Op("button", c, data, "", None, "help")
            /\ UNCHANGED <<game_data, waiting>>
       ELSE LET r == button_hint(game_data, c) IN
            /\ game_data' = r.gd
            /\ last' = Op("button", c, data, "", None, r.reply)
            /\ UNCHANGED waiting
    /\ UNCHANGED <<riddles, pc, tasks, key_order, now>>

\* handle_message: an inbound text message that is not a command
HandleMessage(track, c, raw) ==
    /\ Polling
    /\ waiting[c] => raw \in NameTexts
    /\ LET r == handle_message(game_data, key_order, waiting[c], c, raw, now) IN
       /\ game_data' = r.gd
       /\ key_order' = r.ko
       /\ waiting' = [waiting EXCEPT ![c] = r.waiting]
       /\ last' = Op("handle_message", c, raw, r.branch, None, r.reply)
    /\ Played(track, c, Event("text", raw))
    /\ UNCHANGED <<riddles, pc, tasks, now>>

\* /hint
HintCommand(track, c) ==
    /\ Polling
    /\ c \in DOMAIN game_data => game_data[c].hints_used < MaxHints
    /\ LET r == hint_command(game_data, c) IN
       /\ game_data' = r.gd
       /\ last' = Op("hint_command", c, NoArg, "", None, r.reply)
    /\ Played(track, c, Event("command", "hint"))
    /\ UNCHANGED <<riddles, pc, tasks, key_order, waiting, now>>

\* /status
StatusCommand(track, c) ==
    /\ Polling
    /\ last' = Op("status_command", c, NoArg, "", None, status_command(game_data, c))
    /\ Played(track, c, Event("command", "status"))
    /\ UNCHANGED <<riddles, pc, tasks, game_data, key_order, waiting, now>>

\* the conversation driver: what the running bot does on inbound events
Driver(track) ==
    \/ Tick
    \/ \E c \in Players : Start(track, c)
    \/ \E c \in Chats : \E data \in ButtonsOf(c) : ButtonCallback(track, c, data)
    \/ \E c \in Chats : \E raw \in TextsOf(c) : HandleMessage(track, c, raw)
    \/ \E c \in Players : HintCommand(track, c)
    \/ \E c \in Players : StatusCommand(track, c)

Next == Driver(TRUE)

Spec == Init /\ [][Next]_vars

(***************************************************************************)
(* The engine called directly, as a client of the TreasureHuntBot class    *)
(* (a test, another driver) may call it, next to the handlers that call    *)
(* the engine on a session.                                                *)
(***************************************************************************)
CreateGameSession(c, team_name) ==
    /\ game_data' = create_game_session(game_data, c, team_name, now)
    /\ key_order' = InsertKey(key_order, c)
    /\ last' = Op("create_game_session", c, team_name, "", game_data'[c], "")
    /\ UNCHANGED <<riddles, pc, tasks, waiting, now, played>>

GetCurrentRiddle(c) ==
    /\ last' = Op("get_current_riddle", c, NoArg, "", get_current_riddle(game_data, c), "")
    /\ UNCHANGED <<riddles, pc, tasks, game_data, key_order, waiting, now, played>>

ValidateQrCode(c, qr_data) ==
    /\ last' = Op("validate_qr_code", c, qr_data, "", validate_qr_code(game_data, c, qr_data), "")
    /\ UNCHANGED <<riddles, pc, tasks, game_data, key_order, waiting, now, played>>

AdvanceRiddle(c) ==
    /\ c \in DOMAIN game_data => game_data[c].current_riddle < Len(riddles) + MaxOverrun
    /\ game_data' = advance_riddle(game_data, c, now)
    /\ last' = Op("advance_riddle", c, NoArg, "", advance_riddle_result(game_data, c), "")
    /\ UNCHANGED <<riddles, pc, tasks, key_order, waiting, now, played>>

GetLeaderboard ==
    /\ last' = Op("get_leaderboard", 0, NoArg, "", get_leaderboard(game_data, key_order), "")
    /\ UNCHANGED <<riddles, pc, tasks, game_data, key_order, waiting, now, played>>

EngineNext ==
    \/ Tick
    \/ \E c \in Players, raw \in EngineTexts : HandleMessage(FALSE, c, raw)
    \/ \E c \in Players : HintCommand(FALSE, c)
    \/ \E c \in Players : ButtonCallback(FALSE, c, "hint")
    \/ \E c \in Players : StatusCommand(FALSE, c)
    \/ \E c \in Chats, team_name \in TeamNames : CreateGameSession(c, team_name)
    \/ \E c \in Players : GetCurrentRiddle(c)
    \/ \E c \in Players, qr_data \in QrInputs : ValidateQrCode(c, qr_data)
    \/ \E c \in Chats : AdvanceRiddle(c)
    \/ GetLeaderboard

EngineSpec == Init /\ [][EngineNext]_vars

(***************************************************************************)
(* main: the command line is parsed, a TreasureHuntBot is built, and the   *)
(* first option that is set decides what happens; only without             *)
(* --list-riddles, --generate-qr and --validate, and with a token, are the *)
(* handlers registered and run_polling entered.                            *)
(***************************************************************************)
\* args of parser.parse_args(): is the option (or the token) given?
Args == [token : BOOLEAN, list_riddles : BOOLEAN, generate_qr : BOOLEAN, validate : BOOLEAN]

\* len(ids) != len(set(ids))
HasDuplicateIds(rs) ==
    Len(rs) # Cardinality({rs[i].id : i \in 1..Len(rs)})

\* len(qr_codes) != len(set(qr_codes))
HasDuplicateQrCodes(rs) ==
    Len(rs) # Cardinality({rs[i].qr_code : i \in 1..Len(rs)})

\* main, lines 514-608: where it ends up and what it prints last
main(rs, args) ==
    IF args.list_riddles THEN [pc |-> "exit", reply |-> "riddles_listed"]
    ELSE IF args.generate_qr THEN [pc |-> "exit", reply |-> "qr_generated"]
    ELSE IF args.validate
    THEN IF HasDuplicateIds(rs) THEN [pc |-> "exit", reply |-> "duplicate_ids"]
         ELSE IF HasDuplicateQrCodes(rs) THEN [pc |-> "exit", reply |-> "duplicate_qr_codes"]
         ELSE [pc |-> "exit", reply |-> "validation_passed"]
    ELSE IF ~args.token THEN [pc |-> "exit", reply |-> "token_required"]
    ELSE [pc |-> "polling", reply |-> "ready"]

\* the process starts: nothing is built yet
MainInit ==
    /\ riddles \in StartupCatalogs
    /\ game_data = <<>>
    /\ key_order = <<>>
    /\ waiting = [c \in Chats |-> FALSE]
    /\ now = 0
    /\ last = Op("init", 0, NoArg, "", None, "")
    /\ played = [c \in Chats |-> 0]
    /\ pc = "main"
    /\ tasks = <<>>

Main(args) ==
    /\ pc = "main"
    /\ LET r == main(riddles, args) IN
       /\ pc' = r.pc
       /\ last' = Op("main", 0, args, "", None, r.reply)
    /\ UNCHANGED <<riddles, tasks, game_data, key_order, waiting, now, played>>

\* the process from its start: main, then, once polling, the handlers
MainNext ==
    \/ \E args \in Args : Main(args)
    \/ Driver(FALSE)

MainSpec == MainInit /\ [][MainNext]_vars

(***************************************************************************)
(* Concurrent updates.  A handler is a coroutine: it runs without          *)
(* interruption up to an await, where the handlers of other updates may    *)
(* run.  A handler is the sequence of its segments, the runs of statements *)
(* between two awaits; what follows the last segment given here only       *)
(* sends messages.                                                         *)
(***************************************************************************)
\* update.message.text of the texts delivered concurrently
AsyncTexts == {QrPark, TextPark}

\* hint_command as it would be with an await between the read of hints_used
\* and its assignment
HintCommandSegmentsSplit ==
    << <<"get_current_riddle", "load">>, <<"store">> >>

\* hint_command, lines 409-417: get_current_riddle and hints_used += 1 (a
\* load and a store) come before the first await, reply_text
HintCommandSegments ==
    << <<"get_current_riddle", "load", "store">> >>

\* button_callback with query.data == "hint", lines 265-321: await
\* query.answer() comes first, then get_current_riddle and hints_used += 1
\* before the next await, edit_message_text
ButtonHintSegments ==
    << <<>>, <<"get_current_riddle", "load", "store">> >>

\* handle_message, lines 324-399: every read and write of the session comes
\* before the first await (reply_text, or the send in send_riddle after its
\* own call of get_current_riddle)
HandleMessageSegments ==
    << <<"handle_message">> >>

Segments(kind) ==
    IF kind = "hint_command" THEN HintCommandSegments
    ELSE IF kind = "hint_button" THEN ButtonHintSegments
    ELSE HandleMessageSegments

HintKinds == {"hint_command", "hint_button"}

\* the coroutine of an update: its handler, chat and text, the segment it
\* runs next, its locals (current_riddle, the value of hints_used loaded),
\* the position of the session before and after it ran, and its reply
NewTask(kind, c, arg) ==
    [kind |-> kind, chat |-> c, arg |-> arg, seg |-> 1,
     current_riddle |-> Unbound, loaded |-> 0, seen |-> -1, left |-> -1, reply |-> ""]

Finished(task) == task.seg > Len(Segments(task.kind))

\* the position of the session of chat c, -1 when it has none
PositionOf(gd, c) == IF c \in DOMAIN gd THEN gd[c].current_riddle ELSE -1

\* one statement of a hint handler, on the store gd and the coroutine task
HintStatement(op, st) ==
    LET task == st.task
        c == task.chat IN
    IF op = "get_current_riddle"
    THEN LET current_riddle == get_current_riddle(st.gd, c) IN
         [gd |-> st.gd,
          task |-> [task EXCEPT !.current_riddle = current_riddle,
                                !.reply = IF current_riddle = None
                                          THEN "no_active_riddle" ELSE ""]]
    ELSE IF task.current_riddle = None
    THEN st                                      \* the handler has returned
    ELSE IF op = "load"
    THEN [gd |-> st.gd, task |-> [task EXCEPT !.loaded = st.gd[c].hints_used]]
    ELSE [gd |-> [st.gd EXCEPT ![c].hints_used = task.loaded + 1],
          task |-> [task EXCEPT !.reply = "hint"]]

RECURSIVE HintStatements(_, _)
HintStatements(ops, st) ==
    IF ops = <<>> THEN st
    ELSE HintStatements(Tail(ops), HintStatement(Head(ops), st))

\* an update arrives and its handler is scheduled
Deliver(kind, c, arg) ==
    /\ Polling
    /\ Len(tasks) < MaxTasks
    /\ tasks' = Append(tasks, NewTask(kind, c, arg))
    /\ last' = Op("deliver", c, arg, "", None, "")
    /\ UNCHANGED <<riddles, pc, game_data, key_order, waiting, now, played>>

\* the hint handler of update i runs its next segment, up to its next await
HintStep(i) ==
    /\ Polling
    /\ i \in 1..Len(tasks)
    /\ tasks[i].kind \in HintKinds
    /\ ~Finished(tasks[i])
    /\ LET task == tasks[i]
           st == HintStatements(Segments(task.kind)[task.seg],
                                [gd |-> game_data, task |-> task]) IN
       /\ game_data' = st.gd
       /\ tasks' = [tasks EXCEPT ![i] = [st.task EXCEPT !.seg = @ + 1]]
       /\ last' = Op("hint_step", task.chat, NoArg, "", None, st.task.reply)
    /\ UNCHANGED <<riddles, pc, key_order, waiting, now, played>>

\* the text handler of update i runs its segment
TextStep(i) ==
    /\ Polling
    /\ i \in 1..Len(tasks)
    /\ tasks[i].kind = "text"
    /\ ~Finished(tasks[i])
    /\ LET task == tasks[i]
           c == task.chat
           r == handle_message(game_data, key_order, waiting[c], c, task.arg, now) IN
       /\ game_data' = r.gd
       /\ key_order' = r.ko
       /\ waiting' = [waiting EXCEPT ![c] = r.waiting]
       /\ tasks' = [tasks EXCEPT ![i] = [task EXCEPT !.seg = @ + 1,
                                                     !.seen = PositionOf(game_data, c),
                                                     !.left = PositionOf(r.gd, c),
                                                     !.reply = r.reply]]
       /\ last' = Op("handle_message", c, task.arg, r.branch, None, r.reply)
    /\ UNCHANGED <<riddles, pc, now, played>>

\* the session of a chat is created before any update of the chat is delivered
FirstSession(c, team_name) ==
    /\ c \notin DOMAIN game_data
    /\ tasks = <<>>
    /\ CreateGameSession(c, team_name)

\* a team is registered once and moved along the catalog by the engine;
\* updates of its chat are delivered and their handlers interleave
AsyncNext ==
    \/ \E c \in Players, team_name \in TeamNames : FirstSession(c, team_name)
    \/ \E c \in Players : AdvanceRiddle(c)
    \/ \E c \in Players, kind \in HintKinds : Deliver(kind, c, NoArg)
    \/ \E c \in Players, raw \in AsyncTexts : Deliver("text", c, raw)
    \/ \E i \in 1..MaxTasks : HintStep(i)
    \/ \E i \in 1..MaxTasks : TextStep(i)

AsyncSpec == Init /\ [][AsyncNext]_vars

(***************************************************************************)
(* Properties.  last.pre is game_data before the last operation, so a      *)
(* property of one operation is a predicate of the state after it.         *)
(***************************************************************************)
\* the last operation replaced the session of chat c by a new one
Replaced(c) ==
    /\ last.chat = c
    /\ \/ last.op = "create_game_session"
       \/ last.op = "handle_message" /\ last.branch = "team_name"

\* the last operation was a hint request (the /hint command or the hint button)
HintRequested ==
    \/ last.op = "hint_command"
    \/ last.op = "button" /\ last.arg = "hint"

\* the last operation was a text handled while no team name was awaited
TextSubmitted == last.op = "handle_message" /\ ~last.pre_waiting[last.chat]

\* the progress of a session: its position, completed list and status
Progress(session) ==
    <<session.current_riddle, session.completed_riddles, session.status>>

\* C1: counting from a freshly created session (completed_riddles grows by
\* one per advance_riddle call and is empty at creation), the session is
\* active with no end_time after fewer than N = len(riddles) calls, and the
\* N-th call, made on an active session, makes it completed and stamps
\* end_time with the time of that call.
C1_CompletedOnNthAdvance ==
    \A c \in DOMAIN game_data :
        LET s == game_data[c]
            k == Len(s.completed_riddles) IN
        /\ Replaced(c) => k = 0
        /\ (last.op = "advance_riddle" /\ last.chat = c /\ c \in DOMAIN last.pre)
              => k = Len(last.pre[c].completed_riddles) + 1
        /\ k < Len(riddles) => s.status = "active" /\ "end_time" \notin DOMAIN s
        /\ k = Len(riddles) => s.status = "completed" /\ "end_time" \in DOMAIN s
        /\ (last.op = "advance_riddle" /\ last.chat = c /\ k = Len(riddles))
              => /\ last.pre[c].status = "active"
                 /\ "end_time" \notin DOMAIN last.pre[c]
                 /\ s.end_time = now

C1_Witness ==
    /\ riddles = load_riddles
    /\ last.op = "advance_riddle"
    /\ last.chat \in DOMAIN game_data
    /\ Len(game_data[last.chat].completed_riddles) = Len(riddles)
    /\ game_data[last.chat].status = "completed"

\* C2: a text of a chat with a session, handled while no team name is
\* awaited, that starts with "TREASURE_HUNT_" takes the location-code branch, and when it equals the
\* current riddle's qr_code the session moves on by exactly one position.
C2_PrefixedTextIsLocationCode ==
    LET c == last.chat IN
    (TextSubmitted /\ c \in DOMAIN last.pre /\ StartsWith(last.arg, QrPrefix)) =>
        /\ last.branch = "qr_code"
        /\ (/\ last.pre[c].current_riddle < Len(riddles)
            /\ last.arg = riddles[last.pre[c].current_riddle + 1].qr_code)
              => game_data[c].current_riddle = last.pre[c].current_riddle + 1

\* C3: a chat whose inbound events were the whole walkthrough of the shipped
\* catalog has a completed session and has just been sent the completion
\* message.
C3_WalkthroughCompletes ==
    \A c \in Chats :
        (riddles = load_riddles /\ played[c] = WalkthroughLength) =>
            /\ c \in DOMAIN game_data
            /\ game_data[c].status = "completed"
            /\ last.chat = c
            /\ last.reply = "completed"

\* C4: validate_qr_code returns True exactly when the chat has a session
\* whose position is inside the catalog and qr_data equals that riddle's
\* qr_code character for character, and it leaves game_data as it was.
C4_ValidateQrCode ==
    LET c == last.chat IN
    last.op = "validate_qr_code" =>
        /\ last.ret = (/\ c \in DOMAIN last.pre
                       /\ last.pre[c].current_riddle < Len(riddles)
                       /\ last.arg = riddles[last.pre[c].current_riddle + 1].qr_code)
        /\ game_data = last.pre

C4_Witness ==
    /\ last.op = "validate_qr_code"
    /\ last.ret = TRUE
    /\ last.arg = QrPark
    /\ game_data[last.chat].current_riddle = 1

\* C5: a text handled by handle_message while no team name is awaited that
\* differs from the current riddle's qr_code (or that comes when there is no
\* current riddle) leaves the position, completed list and status of the
\* chat's session as they were; the position moves only on a text
\* validate_qr_code accepts.
C5_WrongCodeChangesNothing ==
    LET c == last.chat IN
    (TextSubmitted /\ c \in DOMAIN last.pre) =>
        /\ c \in DOMAIN game_data
        /\ (\/ last.pre[c].current_riddle >= Len(riddles)
            \/ last.arg # riddles[last.pre[c].current_riddle + 1].qr_code)
              => Progress(game_data[c]) = Progress(last.pre[c])
        /\ Progress(game_data[c]) # Progress(last.pre[c])
              => (\/ last.arg = riddles[last.pre[c].current_riddle + 1].qr_code
                  \/ Lower(Strip(last.arg)) = riddles[last.pre[c].current_riddle + 1].qr_code)

C5_Witness ==
    /\ TextSubmitted
    /\ last.arg = QrCafe
    /\ last.chat \in DOMAIN last.pre
    /\ riddles = load_riddles
    /\ game_data[last.chat] = last.pre[last.chat]

\* the operations of the progression engine on an existing session
EngineOperation ==
    \/ last.op \in {"get_current_riddle", "validate_qr_code", "advance_riddle"}
    \/ HintRequested
    \/ TextSubmitted

\* C6: a completed session stays completed under get_current_riddle,
\* validate_qr_code, answer submission, advance_riddle and hint requests; for
\* it get_current_riddle returns None, validate_qr_code returns False and an
\* answer submission is told that there is no active game.
C6_CompletedIsTerminal ==
    /\ \A c \in DOMAIN last.pre :
          (last.pre[c].status = "completed" /\ EngineOperation)
              => c \in DOMAIN game_data /\ game_data[c].status = "completed"
    /\ (last.chat \in DOMAIN last.pre /\ last.pre[last.chat].status = "completed") =>
          /\ last.op = "get_current_riddle" => last.ret = None
          /\ last.op = "validate_qr_code" => last.ret = FALSE
          /\ TextSubmitted => last.reply \in {"no_active_game", "all_solved"}

C6_Witness ==
    /\ last.op = "advance_riddle"
    /\ last.chat \in DOMAIN last.pre
    /\ last.pre[last.chat].status = "completed"
    /\ game_data[last.chat].status = "completed"
    /\ game_data[last.chat].current_riddle > Len(riddles)

\* C7: the position, completed list and status of an existing session change
\* only by advance_riddle (called directly or from the location-code branch
\* of handle_message), unless the session is replaced by a new one; answer
\* submissions, validate_qr_code, hint and status requests,
\* get_current_riddle and get_leaderboard leave them as they were for every
\* session.
C7_OnlyAdvanceMoves ==
    \A c \in DOMAIN last.pre :
        LET moved == \/ c \notin DOMAIN game_data
                     \/ Progress(game_data[c]) # Progress(last.pre[c]) IN
        /\ (moved /\ ~Replaced(c)) =>
              /\ last.chat = c
              /\ \/ last.op = "advance_riddle"
                 \/ last.op = "handle_message" /\ last.branch = "qr_code"
        /\ (\/ last.op \in {"validate_qr_code", "hint_command", "button", "status_command",
                            "get_current_riddle", "get_leaderboard"}
            \/ last.op = "handle_message" /\ last.branch = "answer")
              => ~moved

C7_Witness ==
    /\ last.op = "handle_message"
    /\ last.branch = "answer"
    /\ last.reply = "answer_correct"
    /\ last.chat \in DOMAIN last.pre
    /\ last.pre[last.chat].current_riddle = 1
    /\ Progress(game_data[last.chat]) = Progress(last.pre[last.chat])

\* C8: after create_game_session (called directly or by a team-name
\* submission) the chat's session is exactly a new one: position 0, nothing
\* completed, no hints, active, started now, no end_time, whatever session
\* the chat had before; the other sessions are as before and every chat
\* with a session is one key of the store.
C8_CreateResets ==
    LET c == last.chat IN
    /\ (Replaced(c) /\ last.reply # "name_too_short") =>
          /\ DOMAIN game_data = DOMAIN last.pre \cup {c}
          /\ game_data[c] =
                [team_name |-> IF last.op = "create_game_session"
                               THEN last.arg ELSE Lower(Strip(last.arg)),
                 current_riddle |-> 0,
                 start_time |-> now,
                 completed_riddles |-> <<>>,
                 hints_used |-> 0,
                 status |-> "active"]
          /\ \A d \in DOMAIN last.pre \ {c} : game_data[d] = last.pre[d]
    /\ Len(key_order) = Cardinality(DOMAIN game_data)
    /\ Range(key_order) = DOMAIN game_data

C8_Witness ==
    /\ last.op = "create_game_session"
    /\ last.chat \in DOMAIN last.pre
    /\ last.pre[last.chat].status = "completed"
    /\ last.pre[last.chat].hints_used > 0
    /\ game_data[last.chat].hints_used = 0

\* C9: a hint request adds exactly 1 to the chat's hints_used and sends the
\* hint when the chat has a session whose position is inside the catalog,
\* however many hints were already taken; otherwise, and so when the chat has
\* no session or a completed one, it reports that there is no active riddle
\* and changes nothing.
C9_HintRequest ==
    LET c == last.chat
        has == c \in DOMAIN last.pre /\ last.pre[c].current_riddle < Len(riddles) IN
    HintRequested =>
        /\ has => /\ game_data = [last.pre EXCEPT ![c].hints_used = @ + 1]
                  /\ last.reply = "hint"
        /\ ~has => /\ game_data = last.pre
                   /\ last.reply = "no_active_riddle"
        /\ (c \in DOMAIN last.pre /\ last.pre[c].status = "completed") => ~has

C9_Witness ==
    /\ HintRequested
    /\ last.op = "hint_command"
    /\ last.chat \in DOMAIN last.pre
    /\ last.pre[last.chat].hints_used = 1
    /\ game_data[last.chat].hints_used = 2
    /\ game_data[last.chat].completed_riddles = <<>>

\* C10: unless the session is replaced by a new one, no operation lowers
\* its hints_used, and a text handled as an answer leaves the hints_used of
\* every session as it was, whether the answer is right or wrong.
C10_HintsMonotone ==
    \A c \in DOMAIN last.pre :
        /\ ~Replaced(c) =>
              /\ c \in DOMAIN game_data
              /\ game_data[c].hints_used >= last.pre[c].hints_used
        /\ (last.op = "handle_message" /\ last.branch = "answer")
              => game_data[c].hints_used = last.pre[c].hints_used

C10_Witness ==
    /\ last.op = "handle_message"
    /\ last.branch = "answer"
    /\ last.reply = "answer_wrong"
    /\ last.chat \in DOMAIN last.pre
    /\ last.pre[last.chat].hints_used = MaxHints
    /\ game_data[last.chat].hints_used = MaxHints

\* C11: a text handled for a chat whose session is active with a current
\* riddle is answered "correct" exactly when that riddle has an answer and
\* the text, stripped and lower-cased, equals the answer stripped and
\* lower-cased; so for a riddle without an answer no text is answered
\* "correct", a text of blanks included.
C11_AnswerJudgedCorrect ==
    LET c == last.chat IN
    (/\ TextSubmitted
     /\ c \in DOMAIN last.pre
     /\ last.pre[c].status = "active"
     /\ last.pre[c].current_riddle < Len(riddles)) =>
        LET r == riddles[last.pre[c].current_riddle + 1] IN
        (last.reply = "answer_correct")
            <=> (/\ "answer" \in DOMAIN r
                 /\ Lower(Strip(last.arg)) = Lower(Strip(r.answer)))

\* the last operation returned the leaderboard (the engine call or the button)
LeaderboardReturned ==
    \/ last.op = "get_leaderboard"
    \/ last.op = "button" /\ last.arg = "leaderboard"

\* C12: get_leaderboard returns one entry for each completed session and
\* none for any other, each with the session's team name, end_time -
\* start_time and hints_used, in ascending order of duration and, for equal
\* durations, of hints_used.
C12_Leaderboard ==
    LeaderboardReturned =>
        LET lb == last.ret IN
        /\ \A c \in DOMAIN game_data :
              game_data[c].status = "completed" => \E i \in 1..Len(lb) : lb[i].chat_id = c
        /\ \A i, j \in 1..Len(lb) : lb[i].chat_id = lb[j].chat_id => i = j
        /\ \A i \in 1..Len(lb) :
              LET c == lb[i].chat_id IN
              /\ c \in DOMAIN game_data
              /\ game_data[c].status = "completed"
              /\ lb[i] = [team_name |-> game_data[c].team_name,
                          duration |-> game_data[c].end_time - game_data[c].start_time,
                          hints_used |-> game_data[c].hints_used,
                          chat_id |-> c]
        /\ \A i, j \in 1..Len(lb) :
              i < j => \/ lb[i].duration < lb[j].duration
                       \/ /\ lb[i].duration = lb[j].duration
                          /\ lb[i].hints_used <= lb[j].hints_used

\* the faster team is first although it took more hints, and the sort had
\* to move it there
C12_Witness ==
    /\ last.op = "get_leaderboard"
    /\ Len(last.ret) = 2
    /\ last.ret[1].duration < last.ret[2].duration
    /\ last.ret[1].hints_used > last.ret[2].hints_used
    /\ key_order = <<last.ret[2].chat_id, last.ret[1].chat_id>>

\* the place of chat c in the order in which the chats were first inserted
Position(ko, c) == CHOOSE i \in 1..Len(ko) : ko[i] = c

\* C13: the leaderboard is strictly ascending in (duration, hints_used,
\* place of the chat in the insertion order of the store): entries with the
\* same duration and hints_used come in the order in which their chats were
\* first inserted, so the store determines the sequence returned.
C13_TiesInInsertionOrder ==
    LeaderboardReturned =>
        LET lb == last.ret IN
        \A i, j \in 1..Len(lb) :
            i < j =>
                \/ lb[i].duration < lb[j].duration
                \/ /\ lb[i].duration = lb[j].duration
                   /\ lb[i].hints_used < lb[j].hints_used
                \/ /\ lb[i].duration = lb[j].duration
                   /\ lb[i].hints_used = lb[j].hints_used
                   /\ Position(key_order, lb[i].chat_id) < Position(key_order, lb[j].chat_id)

C13_Witness ==
    /\ last.op = "get_leaderboard"
    /\ Len(last.ret) = 2
    /\ last.ret[1].duration = last.ret[2].duration
    /\ last.ret[1].hints_used = last.ret[2].hints_used
    /\ key_order = <<2, 1>>
    /\ last.ret[1].chat_id = 2
    /\ game_data[2].start_time > game_data[1].start_time

\* C14: with a catalog in which two riddles have the same id or the same
\* qr_code the process never polls for events and never holds a session.
C14_DuplicatesFatal ==
    (HasDuplicateIds(riddles) \/ HasDuplicateQrCodes(riddles)) =>
        /\ pc # "polling"
        /\ game_data = <<>>

\* C15: a text handled while a team name is awaited is taken as the team
\* name.  When it has fewer than 2 characters once stripped it is refused:
\* game_data is as before (no session created, an existing one untouched)
\* and the team name is still awaited; otherwise the chat gets a new session
\* under that name and the team name is no longer awaited.
C15_TeamName ==
    LET c == last.chat IN
    (last.op = "handle_message" /\ last.pre_waiting[c]) =>
        /\ last.branch = "team_name"
        /\ IF Len(Strip(last.arg)) < 2
           THEN /\ game_data = last.pre
                /\ waiting[c]
                /\ last.reply = "name_too_short"
           ELSE /\ c \in DOMAIN game_data
                /\ game_data[c].team_name = Lower(Strip(last.arg))
                /\ game_data[c].current_riddle = 0
                /\ game_data[c].status = "active"
                /\ ~waiting[c]
                /\ last.reply = "riddle"

\* a one-character name is refused for a chat that already has a session
C15_Witness ==
    /\ last.op = "handle_message"
    /\ last.pre_waiting[last.chat]
    /\ last.arg = TextX
    /\ last.reply = "name_too_short"
    /\ last.chat \in DOMAIN last.pre
    /\ game_data = last.pre
    /\ waiting[last.chat]

\* C16: whatever the last operation was and whichever chat it was for, the
\* session of every other chat is exactly as it was before the operation:
\* team name, position, completed list, hints, status and timestamps.
C16_ChannelsIndependent ==
    \A d \in DOMAIN last.pre :
        d # last.chat =>
            /\ d \in DOMAIN game_data
            /\ game_data[d] = last.pre[d]

\* chat 2 is advanced to completion while chat 1 is in the middle of its game
C16_Witness ==
    /\ last.op = "advance_riddle"
    /\ last.chat = 2
    /\ {1, 2} \subseteq DOMAIN last.pre
    /\ last.pre[2].status = "active"
    /\ game_data[2].status = "completed"
    /\ game_data[1].status = "active"
    /\ game_data[1].current_riddle = 1
    /\ game_data[1].hints_used > 0

\* C17: what an operation does for a session at position p is decided by
\* the catalog entry at place p, whatever its id: get_current_riddle returns
\* that entry, validate_qr_code accepts exactly its qr_code, a hint or a
\* status is given exactly when p is inside the catalog, advance_riddle
\* appends p and moves to p + 1, so the places 0, 1, 2, ... are visited one
\* by one although the ids have a gap; and no text is ever refused for the
\* id of the current riddle.
C17_PositionNotId ==
    LET c == last.chat IN
    /\ c \in DOMAIN last.pre =>
          LET p == last.pre[c].current_riddle
              inside == p < Len(riddles) IN
          /\ last.op = "get_current_riddle"
                => last.ret = IF inside THEN riddles[p + 1] ELSE None
          /\ last.op = "validate_qr_code"
                => last.ret = (inside /\ last.arg = riddles[p + 1].qr_code)
          /\ last.op = "advance_riddle"
                => /\ game_data[c].current_riddle = p + 1
                   /\ game_data[c].completed_riddles
                         = Append(last.pre[c].completed_riddles, p)
          /\ HintRequested => (last.reply = "hint") = inside
          /\ last.op = "status_command" => (last.reply = "status") = inside
    /\ last.reply # "answer_first"

\* the session at place 2 gets the third riddle, whose id is 3
C17_Witness ==
    /\ riddles = load_riddles
    /\ last.op = "get_current_riddle"
    /\ last.chat \in DOMAIN last.pre
    /\ last.pre[last.chat].current_riddle = 2
    /\ last.pre[last.chat].completed_riddles = <<0, 1>>
    /\ last.ret = riddles[3]
    /\ last.ret.id = 3

\* C18: in every state the position of every session is between 0 and the
\* length of the catalog, whatever engine operations were called, and so
\* also when advance_riddle is called without a validate_qr_code before it.
C18_PositionWithinCatalog ==
    \A c \in DOMAIN game_data :
        /\ 0 <= game_data[c].current_riddle
        /\ game_data[c].current_riddle <= Len(riddles)

\* C19: in every state a session is completed exactly when its position has
\* reached the length of the catalog, and it has an end_time exactly when it
\* is completed; so get_current_riddle returns None for a chat that has a
\* session exactly when that session is completed.
C19_CompletedIffAtEnd ==
    /\ \A c \in DOMAIN game_data :
          LET s == game_data[c] IN
          /\ (s.status = "completed") <=> (s.current_riddle >= Len(riddles))
          /\ ("end_time" \in DOMAIN s) <=> (s.status = "completed")
          /\ s.status \in {"active", "completed"}
    /\ (last.op = "get_current_riddle" /\ last.chat \in DOMAIN last.pre)
          => ((last.ret = None) <=> (last.pre[last.chat].status = "completed"))

\* an active session created after time 0 has a current riddle and no
\* end_time, next to a completed session whose position is the catalog length
C19_Witness ==
    /\ last.op = "get_current_riddle"
    /\ last.ret # None
    /\ game_data[last.chat].status = "active"
    /\ game_data[last.chat].start_time > 0
    /\ "end_time" \notin DOMAIN game_data[last.chat]
    /\ \E d \in DOMAIN game_data :
          /\ game_data[d].status = "completed"
          /\ game_data[d].current_riddle = Len(riddles)
          /\ Len(riddles) > 1

\* C20: in every state the completed_riddles of a session is the sequence
\* 0, 1, ..., current_riddle - 1, so the progress shown by the status
\* request, len(completed_riddles), is the position.
C20_CompletedIsPrefix ==
    \A c \in DOMAIN game_data :
        LET s == game_data[c] IN
        /\ Len(s.completed_riddles) = s.current_riddle
        /\ \A i \in 1..Len(s.completed_riddles) : s.completed_riddles[i] = i - 1

\* the status is shown for a session that has solved the riddles 0, 1, 2
C20_Witness ==
    /\ last.op = "status_command"
    /\ last.reply = "status"
    /\ game_data[last.chat].completed_riddles = <<0, 1, 2>>
    /\ game_data[last.chat].current_riddle = 3

\* C21: the end_time of a completed session is the same after every
\* operation that does not replace the session by a new one, a further
\* advance_riddle included; and so is its duration on the leaderboard.
C21_EndTimeFixed ==
    \A c \in DOMAIN last.pre :
        (last.pre[c].status = "completed" /\ ~Replaced(c)) =>
            /\ c \in DOMAIN game_data
            /\ game_data[c].end_time = last.pre[c].end_time
            /\ game_data[c].end_time - game_data[c].start_time
                  = last.pre[c].end_time - last.pre[c].start_time

\* C22: of two deliveries of the same text for the same chat, the text being
\* the location code (with the "TREASURE_HUNT_" prefix) of the riddle that
\* was current when the handler of one of them ran and the other handler
\* having run no earlier, the first is accepted and moves the session on by one
\* position and the second is refused as a code that is not valid for the new
\* current riddle and moves nothing: the session advances by one, not two.
C22_DuplicateDeliveryOnce ==
    \A i, j \in 1..Len(tasks) :
        LET first == tasks[i]
            second == tasks[j] IN
        (/\ i # j
         /\ first.kind = "text" /\ second.kind = "text"
         /\ Finished(first) /\ Finished(second)
         /\ first.chat = second.chat
         /\ first.arg = second.arg
         /\ StartsWith(first.arg, QrPrefix)
         /\ first.seen >= 0 /\ first.seen < Len(riddles)
         /\ first.arg = riddles[first.seen + 1].qr_code
         /\ first.seen <= second.seen) =>
            /\ first.left = first.seen + 1
            /\ second.left = second.seen
            /\ second.reply = "qr_invalid"

\* the hint requests of chat c that were told the hint
HintsGiven(c) ==
    {i \in 1..Len(tasks) :
        tasks[i].chat = c /\ tasks[i].kind \in HintKinds /\ tasks[i].reply = "hint"}

\* C23: whatever the interleaving of the handlers, the hints_used of a
\* session is the number of hint requests (/hint commands and hint buttons)
\* of its chat that found a current riddle, each of which is told the hint:
\* k requests for an active session add exactly k.
C23_NoLostHint ==
    /\ \A c \in DOMAIN game_data :
          game_data[c].hints_used = Cardinality(HintsGiven(c))
    /\ \A i \in 1..Len(tasks) :
          (/\ tasks[i].kind \in HintKinds
           /\ Finished(tasks[i])
           /\ tasks[i].current_riddle # None) => tasks[i].reply = "hint"

\* the button was pressed first and suspended at query.answer(), the /hint
\* command delivered after it incremented first (it loaded 0, the button 1),
\* and both increments count
C23_Witness ==
    /\ Len(tasks) = 2
    /\ tasks[1].kind = "hint_button" /\ tasks[2].kind = "hint_command"
    /\ Finished(tasks[1]) /\ Finished(tasks[2])
    /\ tasks[1].reply = "hint" /\ tasks[2].reply = "hint"
    /\ tasks[1].loaded = 1 /\ tasks[2].loaded = 0
    /\ game_data[1].hints_used = 2
    /\ game_data[1].status = "active"

====
